---- MODULE Spec2Model ----
(***************************************************************************)
(* Model of codecriticAI/main.py: the pipeline                             *)
(*   get_git_diff -> code_review_with_openai -> create_html_report         *)
(* driven by main(), over a sequence of runs in one working directory      *)
(* (Spec), and two runs racing inside create_html_report (SpecRace).       *)
(***************************************************************************)
EXTENDS Integers, Sequences, FiniteSets, TLC

VARIABLES
    cwd,          \* working directory of the invocation (absolute path)
    env_key,      \* os.environ's OPENAI_API_KEY for the current run
    pc,           \* position of main() in the current run
    diff_text,    \* main.diff_text
    api_key,      \* openai.api_key
    review,       \* main.review
    report_path,  \* main.report_path
    prompts,      \* user prompts sent to openai.chat.completions.create in this run
    files,        \* file system: absolute path -> content
    dirs,         \* file system: existing directories (absolute paths)
    browser,      \* URLs handed to webbrowser.open in this run
    stdout,       \* what this run printed, one tag per print call
    exit_status,  \* exit status of the process once pc = "exited"
    runs,         \* number of runs started so far
    files0,       \* the file system as it was when the current run started
    trace,        \* the stages entered so far (Spec) / the file steps taken (SpecRace)
    procs         \* SpecRace: the two concurrent runs inside create_html_report

vars == <<cwd, env_key, pc, diff_text, api_key, review, report_path, prompts,
          files, dirs, browser, stdout, exit_status, runs, files0, trace, procs>>

-----------------------------------------------------------------------------
(* Bounds *)
MaxDiffLen == 2
MaxReviewLen == 2
MaxRuns == 2

SeqsUpTo(S, n) == UNION {[1..k -> S] : k \in 0..n}

(* Characters of a diff: two kinds of whitespace and two other characters. *)
Whitespace == {" ", "\n"}
DiffChars == Whitespace \cup {"+", "a"}
DiffTexts == SeqsUpTo(DiffChars, MaxDiffLen)

(* Pieces of the markdown text the completion API may return. *)
MdTokens == {"## ", "w", "<title>", "</title>"}
ReviewTexts == SeqsUpTo(MdTokens, MaxReviewLen)

ApiErrors == {"network", "auth", "rate_limit", "malformed"}

(* os.getenv("OPENAI_API_KEY"): None when unset, else the string. *)
EnvKeys == {[set |-> FALSE, val |-> ""], [set |-> TRUE, val |-> ""],
            [set |-> TRUE, val |-> "sk-1"]}
NoneKey == [set |-> FALSE, val |-> ""]

Cwds == {[abs |-> TRUE, parts |-> <<"home", "u">>], [abs |-> TRUE, parts |-> <<"srv">>]}

-----------------------------------------------------------------------------
(* str.strip() *)
RECURSIVE LStrip(_)
LStrip(s) == IF s # <<>> /\ Head(s) \in Whitespace THEN LStrip(Tail(s)) ELSE s

RECURSIVE RStrip(_)
RStrip(s) == IF s # <<>> /\ s[Len(s)] \in Whitespace
             THEN RStrip(SubSeq(s, 1, Len(s) - 1)) ELSE s

Strip(s) == RStrip(LStrip(s))

(* main: "if not diff_text.strip()" *)
IsBlankNoStrip(d) == d = <<>>

IsBlank(d) == Strip(d) = <<>>

(* main: "if not openai.api_key" *)
KeyMissingOnlyNone(k) == ~k.set

KeyMissing(k) == ~k.set \/ k.val = ""

(* get_git_diff: the except branch prints and calls exit(1). *)
CalledProcessErrorReturnsEmpty == [pc |-> "check_diff", exit_status |-> 0]

CalledProcessErrorHandler == [pc |-> "exited", exit_status |-> 1]

(* code_review_with_openai: the except branch prints and calls exit(1). *)
ApiExceptionSwallowed(e) == [pc |-> "create_report", exit_status |-> 0, review |-> <<"w">>]

ApiExceptionRetry(e) == [pc |-> "check_key", exit_status |-> 0, review |-> <<>>]

ApiExceptionHandler(e) == [pc |-> "exited", exit_status |-> 1, review |-> <<>>]

(* code_review_with_openai: the f-string prompt, ending in {diff_text}. *)
PromptTemplate == <<"Perform a comprehensive code review following this structure:",
                    "## Code Review Summary", "## Potential Bugs & Risks",
                    "## Code Quality Assessment", "## Security Checklist",
                    "## Actionable Recommendations", "## Final Assessment",
                    "Formatting Rules:",
                    "- Use [File:Line] references from this diff:", "\n", " ">>

BuildPromptStripped(d) == PromptTemplate \o Strip(d)

BuildPrompt(d) == PromptTemplate \o d

-----------------------------------------------------------------------------
(* pathlib *)
PurePath(name) == [abs |-> FALSE, parts |-> <<name>>]

Join(p, name) == [abs |-> p.abs, parts |-> Append(p.parts, name)]

Resolve(p) == IF p.abs THEN p ELSE [abs |-> TRUE, parts |-> cwd.parts \o p.parts]

OutputDir == "reports"

(* create_html_report: report_path = output_path / "code_review_report.html" *)
ReportPathResolved(output_dir) == Resolve(Join(PurePath(output_dir), "code_review_report.html"))

ReportPath(output_dir) == Join(PurePath(output_dir), "code_review_report.html")

-----------------------------------------------------------------------------
(* markdown.markdown: an empty source gives an empty fragment; a block     *)
(* opening with "## " becomes an <h2>; any other block becomes a <p>; raw  *)
(* HTML in the source is passed through unescaped.                         *)
Markdown(src) ==
    IF src = <<>> THEN <<>>
    ELSE IF Head(src) = "## " THEN <<"<h2>">> \o Tail(src) \o <<"</h2>">>
    ELSE <<"<p>">> \o src \o <<"</p>">>

DocHead == <<"<!DOCTYPE html>", "<html lang=en>", "<head>", "<meta charset>",
             "<meta viewport>", "<title>", "Code Review Report", "</title>",
             "<style>", "</style>", "</head>", "<body>", "<div container>",
             "<div header>", "<h1>", "AI Code Review Report", "</h1>", "</div>">>

DocTail == <<"</div>", "</body>", "</html>">>

(* create_html_report: full_html *)
FullHtml(markdown_content) == DocHead \o Markdown(markdown_content) \o DocTail

(* open(report_path, "w"): the content and the position the handle starts with. *)
OpenAppend(old) == [content |-> old, pos |-> Len(old)]

OpenForWrite(old) == [content |-> <<>>, pos |-> 0]

(* f.write(full_html) through a handle at position pos: bytes at and after *)
(* pos are replaced, bytes beyond the written range stay.                  *)
WriteReplacing(content, pos, data) == data

WriteAt(content, pos, data) ==
    LET n == IF Len(content) > pos + Len(data) THEN Len(content) ELSE pos + Len(data)
    IN [i \in 1..n |-> IF i > pos /\ i <= pos + Len(data) THEN data[i - pos]
                       ELSE IF i <= Len(content) THEN content[i] ELSE " "]

ContentOf(fs, p) == IF p \in DOMAIN fs THEN fs[p] ELSE <<>>

SetContent(fs, p, c) == [q \in DOMAIN fs \cup {p} |-> IF q = p THEN c ELSE fs[q]]

NoFiles == [q \in {} |-> <<>>]

-----------------------------------------------------------------------------
(* What print() received: a message, or a path object. *)
NoPath == [abs |-> FALSE, parts |-> <<>>]

Msg(t) == [text |-> t, path |-> NoPath]

PathLine(p) == [text |-> "", path |-> p]

Procs == {1, 2}

NoProcs == [p \in {} |-> 0]

Init ==
    /\ cwd \in Cwds
    /\ env_key \in EnvKeys
    /\ pc = "get_git_diff"
    /\ diff_text = <<>>
    /\ api_key = NoneKey
    /\ review = <<>>
    /\ report_path = NoPath
    /\ prompts = <<>>
    /\ files = NoFiles
    /\ dirs = {}
    /\ browser = <<>>
    /\ stdout = <<>>
    /\ exit_status = 0
    /\ runs = 1
    /\ files0 = NoFiles
    /\ trace = <<>>
    /\ procs = NoProcs

(* get_git_diff, lines 13-17: the tool exits 0 and its output is decoded. *)
GetGitDiffOk ==
    /\ pc = "get_git_diff"
    /\ \E d \in DiffTexts : diff_text' = d
    /\ pc' = "check_diff"
    /\ trace' = Append(trace, "extract")
    /\ UNCHANGED <<cwd, env_key, api_key, review, report_path, prompts, files, dirs,
                   browser, stdout, exit_status, runs, files0, procs>>

(* get_git_diff, lines 18-20: the tool exits non-zero. *)
GetGitDiffFail ==
    /\ pc = "get_git_diff"
    /\ stdout' = Append(stdout, Msg("Error getting git diff"))
    /\ pc' = CalledProcessErrorHandler.pc
    /\ exit_status' = CalledProcessErrorHandler.exit_status
    /\ trace' = Append(trace, "extract")
    /\ UNCHANGED <<cwd, env_key, diff_text, api_key, review, report_path, prompts, files,
                   dirs, browser, runs, files0, procs>>

(* main, lines 170-172 *)
NoDifferences ==
    /\ pc = "check_diff"
    /\ IsBlank(diff_text)
    /\ stdout' = Append(stdout, Msg("No differences found"))
    /\ pc' = "exited"
    /\ UNCHANGED <<cwd, env_key, diff_text, api_key, review, report_path, prompts, files,
                   dirs, browser, exit_status, runs, files0, trace, procs>>

(* main, line 174 *)
LoadKey ==
    /\ pc = "check_diff"
    /\ ~IsBlank(diff_text)
    /\ api_key' = env_key
    /\ pc' = "check_key"
    /\ UNCHANGED <<cwd, env_key, diff_text, review, report_path, prompts, files, dirs,
                   browser, stdout, exit_status, runs, files0, trace, procs>>

(* main, lines 175-177 *)
MissingKey ==
    /\ pc = "check_key"
    /\ KeyMissing(api_key)
    /\ stdout' = Append(stdout, Msg("ERROR: OPENAI_API_KEY environment variable not found"))
    /\ pc' = "exited"
    /\ UNCHANGED <<cwd, env_key, diff_text, api_key, review, report_path, prompts, files,
                   dirs, browser, exit_status, runs, files0, trace, procs>>

(* main, lines 179-182, with code_review_with_openai returning normally. *)
ReviewOk ==
    /\ pc = "check_key"
    /\ ~KeyMissing(api_key)
    /\ prompts' = Append(prompts, BuildPrompt(diff_text))
    /\ \E r \in ReviewTexts : review' = r
    /\ stdout' = stdout \o <<Msg("Analyzing changes"), Msg("Code Review Results:"),
                             Msg("review")>>
    /\ pc' = "create_report"
    /\ trace' = Append(trace, "review")
    /\ UNCHANGED <<cwd, env_key, diff_text, api_key, report_path, files, dirs, browser,
                   exit_status, runs, files0, procs>>

(* main, lines 179-180, with the API call raising inside code_review_with_openai. *)
ReviewFail ==
    /\ pc = "check_key"
    /\ ~KeyMissing(api_key)
    /\ prompts' = Append(prompts, BuildPrompt(diff_text))
    /\ \E e \in ApiErrors :
          /\ pc' = ApiExceptionHandler(e).pc
          /\ exit_status' = ApiExceptionHandler(e).exit_status
          /\ review' = ApiExceptionHandler(e).review
    /\ stdout' = stdout \o <<Msg("Analyzing changes"), Msg("OpenAI API error")>>
    /\ trace' = Append(trace, "review")
    /\ UNCHANGED <<cwd, env_key, diff_text, api_key, report_path, files, dirs, browser,
                   runs, files0, procs>>

(* main, line 185: create_html_report(review), lines 102-158. *)
CreateHtmlReport ==
    /\ pc = "create_report"
    /\ LET output_path == PurePath(OutputDir)
           path == ReportPath(OutputDir)
           target == Resolve(path)
           f == OpenForWrite(ContentOf(files, target))
       IN /\ dirs' = dirs \cup {Resolve(output_path)}
          /\ files' = SetContent(files, target, WriteAt(f.content, f.pos, FullHtml(review)))
          /\ report_path' = path
    /\ pc' = "print_path"
    /\ trace' = Append(trace, "write")
    /\ UNCHANGED <<cwd, env_key, diff_text, api_key, review, prompts, browser, stdout,
                   exit_status, runs, files0, procs>>

(* main, lines 186-187, then the normal return of main. *)
OpenBrowser ==
    /\ pc = "print_path"
    /\ stdout' = Append(stdout, PathLine(report_path))
    /\ browser' = Append(browser, Resolve(report_path))
    /\ pc' = "exited"
    /\ UNCHANGED <<cwd, env_key, diff_text, api_key, review, report_path, prompts, files,
                   dirs, exit_status, runs, files0, trace, procs>>

(* The tool is started again in the same working directory: a new process. *)
NextRun ==
    /\ pc = "exited"
    /\ runs < MaxRuns
    /\ runs' = runs + 1
    /\ env_key' \in EnvKeys
    /\ pc' = "get_git_diff"
    /\ diff_text' = <<>>
    /\ api_key' = NoneKey
    /\ review' = <<>>
    /\ report_path' = NoPath
    /\ prompts' = <<>>
    /\ browser' = <<>>
    /\ stdout' = <<>>
    /\ exit_status' = 0
    /\ files0' = files
    /\ trace' = <<>>
    /\ UNCHANGED <<cwd, files, dirs, procs>>

Next ==
    \/ GetGitDiffOk
    \/ GetGitDiffFail
    \/ NoDifferences
    \/ LoadKey
    \/ MissingKey
    \/ ReviewOk
    \/ ReviewFail
    \/ CreateHtmlReport
    \/ OpenBrowser
    \/ NextRun

Spec == Init /\ [][Next]_vars

-----------------------------------------------------------------------------
(* Two runs of the tool in the same working directory, both about to call  *)
(* create_html_report, each with the review text it received.              *)
InitRace ==
    /\ cwd \in Cwds
    /\ procs \in [Procs -> [pc : {"create_report"}, review : ReviewTexts, pos : {0}]]
    /\ env_key = NoneKey
    /\ pc = "create_report"
    /\ diff_text = <<>>
    /\ api_key = NoneKey
    /\ review = <<>>
    /\ report_path = NoPath
    /\ prompts = <<>>
    /\ files = NoFiles
    /\ dirs = {}
    /\ browser = <<>>
    /\ stdout = <<>>
    /\ exit_status = 0
    /\ runs = 1
    /\ files0 = NoFiles
    /\ trace = <<>>

(* create_html_report, lines 104-105 and 154-155: mkdir, then open(..., "w"). *)
RaceOpen(p) ==
    /\ procs[p].pc = "create_report"
    /\ LET target == Resolve(ReportPath(OutputDir))
           f == OpenForWrite(ContentOf(files, target))
       IN /\ dirs' = dirs \cup {Resolve(PurePath(OutputDir))}
          /\ files' = SetContent(files, target, f.content)
          /\ procs' = [procs EXCEPT ![p].pc = "opened", ![p].pos = f.pos]
    /\ trace' = Append(trace, [run |-> p, step |-> "open"])
    /\ UNCHANGED <<cwd, env_key, pc, diff_text, api_key, review, report_path, prompts,
                   browser, stdout, exit_status, runs, files0>>

(* create_html_report, lines 156-158: f.write(full_html) and the close. *)
RaceWrite(p) ==
    /\ procs[p].pc = "opened"
    /\ LET target == Resolve(ReportPath(OutputDir))
       IN files' = SetContent(files, target,
                       WriteAt(ContentOf(files, target), procs[p].pos, FullHtml(procs[p].review)))
    /\ procs' = [procs EXCEPT ![p].pc = "returned"]
    /\ trace' = Append(trace, [run |-> p, step |-> "write"])
    /\ UNCHANGED <<cwd, env_key, pc, diff_text, api_key, review, report_path, prompts,
                   dirs, browser, stdout, exit_status, runs, files0>>

NextRace ==
    \/ \E p \in Procs : RaceOpen(p)
    \/ \E p \in Procs : RaceWrite(p)

SpecRace == InitRace /\ [][NextRace]_vars

-----------------------------------------------------------------------------
(* Vocabulary of the properties, stated without the operators of the code. *)
WhitespaceOnly(d) == \A i \in DOMAIN d : d[i] \in {" ", "\n"}

CredentialAbsent == ~env_key.set \/ env_key.val = ""

Printed(t) == \E i \in DOMAIN stdout : stdout[i].text = t

ExtractFailed == Printed("Error getting git diff")

ReviewFailed == Printed("OpenAI API error")

Entered(stage) == \E i \in DOMAIN trace : trace[i] = stage

IsSuffix(d, s) == Len(d) <= Len(s) /\ SubSeq(s, Len(s) - Len(d) + 1, Len(s)) = d

IsPrefix(s, t) == Len(s) <= Len(t) /\ SubSeq(t, 1, Len(s)) = s

RelReport == [abs |-> FALSE, parts |-> <<"reports", "code_review_report.html">>]

ReportFile == [abs |-> TRUE, parts |-> cwd.parts \o <<"reports", "code_review_report.html">>]

ReportExists == ReportFile \in DOMAIN files

TitleOpenings(doc) == {i \in DOMAIN doc : doc[i] = "<title>"}

(* C1: a run whose extracted diff is empty or whitespace-only never sends  *)
(* a review request, writes no file, and ends with exit status 0 after     *)
(* printing "No differences found", whatever the credential is.            *)
C1_BlankDiffStopsBeforeReview ==
    (trace # <<>> /\ ~ExtractFailed /\ WhitespaceOnly(diff_text)) =>
        /\ pc \in {"check_diff", "exited"}
        /\ prompts = <<>>
        /\ ~Entered("review")
        /\ files = files0
        /\ browser = <<>>
        /\ pc = "exited" => (exit_status = 0 /\ stdout = <<Msg("No differences found")>>)

C1_Witness ==
    /\ pc = "exited"
    /\ ~ExtractFailed
    /\ diff_text # <<>>
    /\ WhitespaceOnly(diff_text)
    /\ env_key.val = "sk-1"
    /\ ReportExists

(* C2: a run whose OPENAI_API_KEY is unset or empty sends no request and   *)
(* writes no file; if the extraction succeeded it ends with exit status 0  *)
(* after printing a diagnostic.                                            *)
C2_NoCredentialNoRequest ==
    CredentialAbsent =>
        /\ prompts = <<>>
        /\ files = files0
        /\ browser = <<>>
        /\ (pc = "exited" /\ ~ExtractFailed) =>
              /\ exit_status = 0
              /\ \/ stdout = <<Msg("ERROR: OPENAI_API_KEY environment variable not found")>>
                 \/ stdout = <<Msg("No differences found")>>

C2_Witness ==
    /\ pc = "exited"
    /\ env_key = [set |-> TRUE, val |-> ""]
    /\ ~WhitespaceOnly(diff_text)
    /\ Printed("ERROR: OPENAI_API_KEY environment variable not found")
    /\ exit_status = 0

(* C3: a run whose diff tool exits non-zero terminates with a non-zero     *)
(* status, having sent no request, changed no file and opened no browser.  *)
C3_ExtractionFailureIsFatal ==
    ExtractFailed =>
        /\ pc = "exited"
        /\ exit_status # 0
        /\ prompts = <<>>
        /\ files = files0
        /\ browser = <<>>

C3_Witness ==
    /\ ExtractFailed
    /\ pc = "exited"
    /\ env_key.val = "sk-1"
    /\ ReportExists

(* C4: a run whose review request raises terminates with a non-zero status *)
(* without entering create_html_report: no file changes (an existing       *)
(* report keeps its content) and no browser is opened.                     *)
C4_ReviewFailureIsFatal ==
    ReviewFailed =>
        /\ pc = "exited"
        /\ exit_status # 0
        /\ ~Entered("write")
        /\ files = files0
        /\ browser = <<>>

C4_Witness ==
    /\ ReviewFailed
    /\ pc = "exited"
    /\ ReportExists
    /\ files[ReportFile] # <<>>

(* C5: the stages of a run happen in the order extraction, review request, *)
(* report write, each at most once; a request is sent only after a         *)
(* successful extraction of a non-blank diff with the credential present,  *)
(* at most one request is sent, and the report is written only after the   *)
(* request returned.                                                       *)
C5_StagesInOrderOnce ==
    /\ IsPrefix(trace, <<"extract", "review", "write">>)
    /\ Len(prompts) = (IF Entered("review") THEN 1 ELSE 0)
    /\ Entered("review") =>
          (~ExtractFailed /\ ~WhitespaceOnly(diff_text) /\ ~CredentialAbsent)
    /\ Entered("write") => (~ReviewFailed /\ Printed("Code Review Results:"))
    /\ files # files0 => Entered("write")

C5_Witness ==
    /\ pc = "exited"
    /\ trace = <<"extract", "review", "write">>
    /\ runs = 2

(* C6: in a sequence of runs the only file ever present is                 *)
(* reports/code_review_report.html under the working directory; a run that *)
(* went through create_html_report leaves in it exactly the document of    *)
(* its own review, and any other run leaves the file system as it found it.*)
C6_ReportOverwrittenAtFixedPath ==
    /\ DOMAIN files \subseteq {ReportFile}
    /\ Entered("write") => (ReportExists /\ files[ReportFile] = FullHtml(review))
    /\ ~Entered("write") => files = files0

C6_Witness ==
    /\ runs = 2
    /\ pc = "exited"
    /\ Entered("write")
    /\ ReportFile \in DOMAIN files0
    /\ Len(files[ReportFile]) < Len(files0[ReportFile])

(* C7: the user prompt sent to the completion API ends with the diff text, *)
(* unaltered and with nothing after it.                                    *)
C7_PromptEndsWithDiff ==
    \A i \in DOMAIN prompts : diff_text # <<>> /\ IsSuffix(diff_text, prompts[i])

C7_Witness ==
    /\ prompts # <<>>
    /\ Len(diff_text) = MaxDiffLen
    /\ diff_text[Len(diff_text)] = "\n"

C9_ExactlyOneTitle ==
    Entered("write") =>
        /\ Cardinality(TitleOpenings(files[ReportFile])) = 1
        /\ \A i \in TitleOpenings(files[ReportFile]) :
              files[ReportFile][i + 1] = "Code Review Report"

-----------------------------------------------------------------------------
(* SpecRace vocabulary *)
BothReturned == \A p \in Procs : procs[p].pc = "returned"

StepAt(p, step) == CHOOSE i \in DOMAIN trace : trace[i] = [run |-> p, step |-> step]

LastWriter == trace[Len(trace)].run

OtherRun(p) == CHOOSE q \in Procs : q # p

DocOf(p) == FullHtml(procs[p].review)

(* C10 as stated: once both runs have finished, the file is the complete   *)
(* document of one of the two runs.                                        *)
C10_NoMixture ==
    BothReturned => (ReportExists /\ files[ReportFile] \in {DocOf(1), DocOf(2)})

(* C10 amended: once both runs have finished, the file begins with the     *)
(* complete document of the run that wrote last. It is exactly that        *)
(* document if that run opened the file after the other run's write, or if *)
(* its document is at least as long as the other's; otherwise the other    *)
(* run's document continues after it from the same offset.                 *)
C10_LastWriterPrefix ==
    BothReturned =>
        LET l == LastWriter
            o == OtherRun(l)
            f == files[ReportFile]
        IN /\ ReportExists
           /\ IsPrefix(DocOf(l), f)
           /\ IF StepAt(o, "write") < StepAt(l, "open") \/ Len(DocOf(o)) <= Len(DocOf(l))
              THEN f = DocOf(l)
              ELSE /\ Len(f) = Len(DocOf(o))
                   /\ \A i \in (Len(DocOf(l)) + 1)..Len(f) : f[i] = DocOf(o)[i]

C10_Witness ==
    /\ BothReturned
    /\ ReportExists
    /\ files[ReportFile] \notin {DocOf(1), DocOf(2)}

====
